---- MODULE Spec2Model ----
(***************************************************************************)
(* Quick4lio (src/app.py): the tiered portfolio flow.                      *)
(*                                                                         *)
(* A Python str is a sequence of atoms; an atom is "," or " " or an       *)
(* opaque run of characters that holds neither.  A Python value is a       *)
(* tagged tuple, so that {} and [] and None are different values.  The     *)
(* text kept in Portfolio.sections_data is a str seen as its sequence of   *)
(* JSON tokens.                                                            *)
(***************************************************************************)
EXTENDS Integers, Sequences, FiniteSets, TLC

VARIABLES
  subscription_type,  \* User.subscription_type, per user
  portfolios,         \* the rows of the Portfolio table
  before,             \* the two tables as they were when the last request began
  req,                \* the last request handled (sequential specification)
  resp,               \* what that request answered
  reqs,               \* the requests in flight (concurrent specification)
  inp,                \* input of the function under test (function specifications)
  out,                \* its result
  pc                  \* "in" before the function is applied, "out" after

vars == <<subscription_type, portfolios, before, req, resp, reqs, inp, out, pc>>

(***************************************************************************)
(* Python values                                                           *)
(***************************************************************************)
S(a) == <<a>>

PyNone == <<"None">>

PyStr(s) == <<"str", s>>

PyInt(n) == <<"int", n>>

PyList(xs) == <<"list", xs>>

\* a dict keeps its items in insertion order: a sequence of <<key, value>>
PyDict(items) == <<"dict", items>>

JsonText(toks) == <<"text", toks>>

IsDict(v) == v[1] = "dict"

Keys(d) == {d[2][i][1] : i \in DOMAIN d[2]}

Get(d, k) == d[2][CHOOSE i \in DOMAIN d[2] : d[2][i][1] = k][2]

\* d[k] = v
SetItem(d, k, v) ==
  IF k \in Keys(d)
    THEN PyDict([i \in DOMAIN d[2] |-> IF d[2][i][1] = k THEN <<k, v>> ELSE d[2][i]])
    ELSE PyDict(Append(d[2], <<k, v>>))

\* bool(v) for the values a form lookup gives: None and '' are falsy
Truthy(v) == v # PyNone /\ v # PyStr(<<>>)

(***************************************************************************)
(* json.dumps and json.loads, at the level of tokens                       *)
(***************************************************************************)
RECURSIVE Dumps(_), DumpsElems(_, _), DumpsItems(_, _)

Dumps(v) ==
  CASE v[1] = "None" -> << <<"null">> >>
    [] v[1] = "str"  -> << <<"string", v[2]>> >>
    [] v[1] = "int"  -> << <<"number", v[2]>> >>
    [] v[1] = "list" -> << <<"[">> >> \o DumpsElems(v[2], 1) \o << <<"]">> >>
    [] v[1] = "dict" -> << <<"{">> >> \o DumpsItems(v[2], 1) \o << <<"}">> >>

DumpsElems(xs, i) ==
  IF i > Len(xs) THEN <<>>
  ELSE (IF i > 1 THEN << <<",">> >> ELSE <<>>) \o Dumps(xs[i]) \o DumpsElems(xs, i + 1)

DumpsItems(items, i) ==
  IF i > Len(items) THEN <<>>
  ELSE (IF i > 1 THEN << <<",">> >> ELSE <<>>)
       \o << <<"string", items[i][1]>>, <<":">> >> \o Dumps(items[i][2])
       \o DumpsItems(items, i + 1)

json_dumps(v) == JsonText(Dumps(v))

Tok(t, i) == IF i \in DOMAIN t THEN t[i] ELSE <<"EOF">>

\* a decoder result is <<ok, value, index of the next token>>
DecodeFail == <<FALSE, PyNone, 0>>

RECURSIVE ParseValue(_, _), ParseElems(_, _, _), ParseMembers(_, _, _)

ParseValue(t, i) ==
  LET k == Tok(t, i)[1] IN
  CASE k = "null"   -> <<TRUE, PyNone, i + 1>>
    [] k = "string" -> <<TRUE, PyStr(t[i][2]), i + 1>>
    [] k = "number" -> <<TRUE, PyInt(t[i][2]), i + 1>>
    [] k = "["      -> IF Tok(t, i + 1)[1] = "]"
                         THEN <<TRUE, PyList(<<>>), i + 2>>
                         ELSE ParseElems(t, i + 1, <<>>)
    [] k = "{"      -> IF Tok(t, i + 1)[1] = "}"
                         THEN <<TRUE, PyDict(<<>>), i + 2>>
                         ELSE ParseMembers(t, i + 1, PyDict(<<>>))
    [] OTHER        -> DecodeFail

ParseElems(t, i, acc) ==
  LET r == ParseValue(t, i) IN
  IF ~r[1] THEN DecodeFail
  ELSE LET sep == Tok(t, r[3])[1] IN
       CASE sep = "," -> ParseElems(t, r[3] + 1, Append(acc, r[2]))
         [] sep = "]" -> <<TRUE, PyList(Append(acc, r[2])), r[3] + 1>>
         [] OTHER     -> DecodeFail

ParseMembers(t, i, acc) ==
  IF Tok(t, i)[1] # "string" \/ Tok(t, i + 1)[1] # ":" THEN DecodeFail
  ELSE LET r == ParseValue(t, i + 2) IN
       IF ~r[1] THEN DecodeFail
       ELSE LET sep == Tok(t, r[3])[1] IN
            CASE sep = "," -> ParseMembers(t, r[3] + 1, SetItem(acc, t[i][2], r[2]))
              [] sep = "}" -> <<TRUE, SetItem(acc, t[i][2], r[2]), r[3] + 1>>
              [] OTHER     -> DecodeFail

\* json.loads(data): <<"TypeError">>, <<"JSONDecodeError">> or <<"ok", value>>
json_loads(data) ==
  IF data[1] # "text" THEN <<"TypeError">>
  ELSE LET r == ParseValue(data[2], 1) IN
       IF r[1] /\ r[3] = Len(data[2]) + 1 THEN <<"ok", r[2]>>
       ELSE <<"JSONDecodeError">>

\* the exceptions parse_json catches
Caught == {"JSONDecodeError", "TypeError"}

parse_json(data) ==
  LET r == json_loads(data) IN
  IF r[1] = "ok" THEN r[2]
  ELSE IF r[1] \in Caught THEN PyDict(<<>>)
  ELSE <<"raise", r[1]>>

(***************************************************************************)
(* The record an edit submission builds                                    *)
(***************************************************************************)
\* request.form.get(k)
FormGet(form, k) == IF k \in DOMAIN form THEN PyStr(form[k]) ELSE PyNone

RECURSIVE Split(_)

\* s.split(',')
Split(s) ==
  IF \A i \in DOMAIN s : s[i] # "," THEN <<s>>
  ELSE LET c == CHOOSE i \in DOMAIN s : s[i] = "," /\ \A j \in 1..(i - 1) : s[j] # ","
       IN <<SubSeq(s, 1, c - 1)>> \o Split(SubSeq(s, c + 1, Len(s)))

\* one element of the skills list, from one piece of the split
SkillItem(piece) == PyStr(piece)

SkillsSection(form) ==
  IF Truthy(FormGet(form, "skills"))
    THEN LET parts == Split(form.skills)
         IN PyList([i \in DOMAIN parts |-> SkillItem(parts[i])])
    ELSE PyList(<<>>)

Free == S("Free")

Paid == S("Paid")

Premium == S("Premium")

BaseData(form) ==
  PyDict(<<
    <<S("header"), PyDict(<< <<S("name"), FormGet(form, "name")>>,
                             <<S("title"), FormGet(form, "title")>> >>)>>,
    <<S("about"), PyDict(<< <<S("bio"), FormGet(form, "bio")>> >>)>>,
    <<S("projects"), PyList(<< PyDict(<<
         <<S("name"), FormGet(form, "project_name_1")>>,
         <<S("desc"), FormGet(form, "project_desc_1")>>,
         <<S("image"), FormGet(form, "project_img_1")>> >>) >>)>>,
    <<S("skills"), SkillsSection(form)>>,
    <<S("contact"), PyDict(<< <<S("email"), FormGet(form, "contact_email")>>,
                              <<S("phone"), FormGet(form, "contact_phone")>> >>)>>
  >>)

\* paid_pages gated on Premium alone
PaidTiersPremiumOnly == {Premium}

PaidTiers == {Paid, Premium}

\* premium_pages gated like paid_pages
PremiumTiersWide == {Paid, Premium}

PremiumTiers == {Premium}

PaidPages(form) == PyDict(<< <<S("home_content"), FormGet(form, "home_content")>> >>)

PremiumPages(form) ==
  PyDict(<< <<S("case_studies"), FormGet(form, "case_studies")>>,
            <<S("testimonials"), FormGet(form, "testimonials")>>,
            <<S("resume_link"), FormGet(form, "resume_link")>>,
            <<S("awards"), FormGet(form, "awards")>> >>)

BuildData(form, portfolio_type) ==
  LET d0 == BaseData(form)
      d1 == IF portfolio_type \in PaidTiers
              THEN SetItem(d0, S("paid_pages"), PaidPages(form)) ELSE d0
  IN IF portfolio_type \in PremiumTiers
       THEN SetItem(d1, S("premium_pages"), PremiumPages(form)) ELSE d1

\* request.form.get('portfolio_type', 'Free')
SubmittedType(form) == IF "portfolio_type" \in DOMAIN form THEN form.portfolio_type ELSE Free

(***************************************************************************)
(* The tables                                                              *)
(***************************************************************************)
Users == {"ann"}

EmptySections == JsonText(<< <<"{">>, <<"}">> >>)

\* the column without its unique constraint
UserIdUniqueOff(rows) == TRUE

\* Portfolio.user_id is declared unique=True
UserIdUnique(rows) == \A a \in rows, b \in rows : a.user_id = b.user_id => a = b

RECURSIVE MaxId(_)

MaxId(rows) ==
  IF rows = {} THEN 0
  ELSE LET r == CHOOSE x \in rows : TRUE
           m == MaxId(rows \ {r})
       IN IF r.id > m THEN r.id ELSE m

\* Portfolio(user_id=..., portfolio_type=..., sections_data='{}') with the next primary key
NewPortfolio(rows, u, portfolio_type) ==
  [id |-> MaxId(rows) + 1, user_id |-> u,
   portfolio_type |-> portfolio_type, sections_data |-> EmptySections]

\* the rows current_user.portfolio is loaded from
PortfolioRows(rows, u) == {p \in rows : p.user_id = u}

\* UPDATE portfolio SET ... WHERE id = :id
UpdateRow(rows, id, portfolio_type, sections_data) ==
  {IF p.id = id
     THEN [p EXCEPT !.portfolio_type = portfolio_type, !.sections_data = sections_data]
     ELSE p : p \in rows}

RECURSIVE UpdateFrom(_, _, _)

\* d.update(e), from item i of e on
UpdateFrom(d, e, i) ==
  IF i > Len(e[2]) THEN d ELSE UpdateFrom(SetItem(d, e[2][i][1], e[2][i][2]), e, i + 1)

\* the submission merged into the stored record instead of replacing it
SavedSectionsMerged(old, data) == json_dumps(UpdateFrom(parse_json(old), data, 1))

\* what an edit submission writes into sections_data
SavedSections(old, data) == json_dumps(data)

Store == [subscription_type |-> subscription_type, portfolios |-> portfolios]

CommitOutcomes == {"ok", "fail"}

\* which of the two commits of an edit submission fails, if any
CommitFailures == {"none", "insert", "save"}

Idle == <<reqs, inp, out, pc>>

(***************************************************************************)
(* select_plan                                                             *)
(***************************************************************************)
\* an allow-list that lets one more plan through
PlanAllowListWide == {Free, Paid, Premium, S("Enterprise")}

PlanAllowList == {Free, Paid, Premium}

PlanTypes == PlanAllowList \cup {S("Enterprise")}

SelectPlan(u, plan_type, commit) ==
  /\ before' = Store
  /\ req' = [op |-> "select_plan", user |-> u, plan_type |-> plan_type]
  /\ IF plan_type \notin PlanAllowList
       THEN /\ resp' = [status |-> "rejected", view |-> "redirect plan_details"]
            /\ UNCHANGED <<subscription_type, portfolios>>
       ELSE IF commit = "ok"
         THEN /\ subscription_type' = [subscription_type EXCEPT ![u] = plan_type]
              /\ portfolios' = {IF p.user_id = u
                                  THEN [p EXCEPT !.portfolio_type = plan_type]
                                  ELSE p : p \in portfolios}
              /\ resp' = [status |-> "ok", view |-> "redirect dashboard"]
         ELSE /\ resp' = [status |-> "error", view |-> "500"]
              /\ UNCHANGED <<subscription_type, portfolios>>
  /\ UNCHANGED Idle

(***************************************************************************)
(* edit_portfolio                                                          *)
(***************************************************************************)
SkillsInputs == {<<>>, <<"go", ",", " ", "rust">>}

TypePart == {<<>>} \cup {[portfolio_type |-> t] : t \in PlanTypes}

SkillsPart == {<<>>} \cup {[skills |-> s] : s \in SkillsInputs}

ContentPart ==
  {<<>>,
   [name |-> S("Ann"), title |-> S("Dev"), bio |-> S("Hi"),
    contact_email |-> S("a@x.com"), contact_phone |-> <<>>,
    home_content |-> S("Welcome"), case_studies |-> S("CS1")]}

FormSet == {a @@ b @@ c : a \in TypePart, b \in SkillsPart, c \in ContentPart}

EditPost(u, form, failAt) ==
  LET portfolio_type == SubmittedType(form)
      found == PortfolioRows(portfolios, u)
      created == NewPortfolio(portfolios, u, portfolio_type)
      inserted == IF found = {} THEN portfolios \cup {created} ELSE portfolios
      user_portfolio == IF found = {} THEN created ELSE CHOOSE p \in found : TRUE
      saved == UpdateRow(inserted, user_portfolio.id, portfolio_type,
                         SavedSections(user_portfolio.sections_data,
                                       BuildData(form, portfolio_type)))
  IN /\ before' = Store
     /\ req' = [op |-> "edit_post", user |-> u, form |-> form]
     /\ UNCHANGED <<subscription_type, Idle>>
     /\ IF found = {} /\ (failAt = "insert" \/ ~UserIdUnique(inserted))
          THEN /\ portfolios' = portfolios
               /\ resp' = [status |-> "error", view |-> "500"]
          ELSE IF failAt = "save"
            THEN /\ portfolios' = inserted
                 /\ resp' = [status |-> "error", view |-> "500"]
            ELSE /\ portfolios' = saved
                 /\ resp' = [status |-> "ok", view |-> "redirect public_portfolio"]

EditView(plan) ==
  CASE plan = Free    -> "edit_free_portfolio.html"
    [] plan = Paid    -> "edit_paid_portfolio.html"
    [] plan = Premium -> "edit_premium_portfolio.html"
    [] OTHER          -> "redirect plan_details"

EditGet(u, commit) ==
  LET plan == subscription_type[u]
      found == PortfolioRows(portfolios, u)
      inserted == portfolios \cup {NewPortfolio(portfolios, u, plan)}
  IN /\ before' = Store
     /\ req' = [op |-> "edit_get", user |-> u]
     /\ UNCHANGED <<subscription_type, Idle>>
     /\ IF found = {} /\ (commit = "fail" \/ ~UserIdUnique(inserted))
          THEN /\ portfolios' = portfolios
               /\ resp' = [status |-> "error", view |-> "500"]
          ELSE /\ portfolios' = (IF found = {} THEN inserted ELSE portfolios)
               /\ resp' = [status |-> "ok", view |-> EditView(plan)]

(***************************************************************************)
(* public_portfolio                                                        *)
(***************************************************************************)
\* the view chosen from the account's plan instead of the stored portfolio_type
PublicViewBySubscription(u) ==
  IF PortfolioRows(portfolios, u) = {} THEN "public_portfolio.html"
  ELSE CASE subscription_type[u] = Free    -> "free_portfolio.html"
         [] subscription_type[u] = Paid    -> "paid_portfolio.html"
         [] subscription_type[u] = Premium -> "premium_portfolio.html"
         [] OTHER                          -> "public_portfolio.html"

PublicView(u) ==
  LET found == PortfolioRows(portfolios, u) IN
  IF found = {} THEN "public_portfolio.html"
  ELSE LET portfolio == CHOOSE p \in found : TRUE IN
       CASE portfolio.portfolio_type = Free    -> "free_portfolio.html"
         [] portfolio.portfolio_type = Paid    -> "paid_portfolio.html"
         [] portfolio.portfolio_type = Premium -> "premium_portfolio.html"
         [] OTHER                              -> "public_portfolio.html"

PublicPortfolio(u) ==
  /\ before' = Store
  /\ req' = [op |-> "public", user |-> u]
  /\ resp' = [status |-> "ok", view |-> PublicView(u)]
  /\ UNCHANGED <<subscription_type, portfolios, Idle>>

(***************************************************************************)
(* Requests handled one after another                                      *)
(***************************************************************************)
Init ==
  /\ subscription_type = [u \in Users |-> Free]
  /\ portfolios = {}
  /\ before = [subscription_type |-> [u \in Users |-> Free], portfolios |-> {}]
  /\ req = [op |-> "none"]
  /\ resp = [status |-> "none", view |-> "none"]
  /\ reqs = <<>>
  /\ inp = PyNone
  /\ out = PyNone
  /\ pc = "idle"

Next ==
  \/ \E u \in Users, plan_type \in PlanTypes, commit \in CommitOutcomes :
       SelectPlan(u, plan_type, commit)
  \/ \E u \in Users, form \in FormSet, failAt \in CommitFailures :
       EditPost(u, form, failAt)
  \/ \E u \in Users, commit \in CommitOutcomes : EditGet(u, commit)
  \/ \E u \in Users : PublicPortfolio(u)

Spec == Init /\ [][Next]_vars

(***************************************************************************)
(* Requests of one user handled concurrently: each edit_portfolio request  *)
(* loads current_user.portfolio, then inserts and commits when it saw      *)
(* none, then saves (POST) or renders (GET).                               *)
(***************************************************************************)
NumReqs == 2

ReqIds == 1..NumReqs

Methods == {"GET", "POST"}

\* the forms that carry a portfolio_type at most
TypeForms == {f \in FormSet : DOMAIN f \subseteq {"portfolio_type"}}

IdleReq == [pc |-> "idle", status |-> "none"]

Begin(r, u, method, form) ==
  /\ reqs[r].pc = "idle"
  /\ reqs' = [reqs EXCEPT ![r] = [pc |-> "load", user |-> u, method |-> method,
                                  form |-> form, seen |-> {}]]
  /\ UNCHANGED <<subscription_type, portfolios, before, req, resp, inp, out, pc>>

\* user_portfolio = current_user.portfolio
Load(r) ==
  /\ reqs[r].pc = "load"
  /\ LET found == PortfolioRows(portfolios, reqs[r].user) IN
       IF found = {}
         THEN reqs' = [reqs EXCEPT ![r].pc = "create"]
         ELSE \E p \in found :
                reqs' = [reqs EXCEPT ![r].seen = {p.id},
                                     ![r].pc = IF reqs[r].method = "POST"
                                                 THEN "save" ELSE "render"]
  /\ UNCHANGED <<subscription_type, portfolios, before, req, resp, inp, out, pc>>

\* if not user_portfolio: db.session.add(Portfolio(...)); db.session.commit()
Create(r) ==
  /\ reqs[r].pc = "create"
  /\ LET q == reqs[r]
         portfolio_type == IF q.method = "POST" THEN SubmittedType(q.form)
                           ELSE subscription_type[q.user]
         created == NewPortfolio(portfolios, q.user, portfolio_type)
     IN IF UserIdUnique(portfolios \cup {created})
          THEN /\ portfolios' = portfolios \cup {created}
               /\ reqs' = [reqs EXCEPT ![r].seen = {created.id},
                                       ![r].pc = IF q.method = "POST"
                                                   THEN "save" ELSE "render"]
          ELSE /\ portfolios' = portfolios
               /\ reqs' = [reqs EXCEPT ![r] = [pc |-> "idle", status |-> "IntegrityError"]]
  /\ UNCHANGED <<subscription_type, before, req, resp, inp, out, pc>>

\* user_portfolio.portfolio_type = ...; user_portfolio.sections_data = ...; commit
Save(r) ==
  /\ reqs[r].pc = "save"
  /\ LET q == reqs[r]
         portfolio_type == SubmittedType(q.form)
     IN \E p \in {x \in portfolios : x.id \in q.seen} :
          portfolios' = UpdateRow(portfolios, p.id, portfolio_type,
                                  SavedSections(p.sections_data,
                                                BuildData(q.form, portfolio_type)))
  /\ reqs' = [reqs EXCEPT ![r] = [pc |-> "idle", status |-> "saved"]]
  /\ UNCHANGED <<subscription_type, before, req, resp, inp, out, pc>>

Render(r) ==
  /\ reqs[r].pc = "render"
  /\ reqs' = [reqs EXCEPT ![r] = [pc |-> "idle",
                                  status |-> EditView(subscription_type[reqs[r].user])]]
  /\ UNCHANGED <<subscription_type, portfolios, before, req, resp, inp, out, pc>>

InitConc ==
  /\ subscription_type = [u \in Users |-> Free]
  /\ portfolios = {}
  /\ before = [subscription_type |-> [u \in Users |-> Free], portfolios |-> {}]
  /\ req = [op |-> "none"]
  /\ resp = [status |-> "none", view |-> "none"]
  /\ reqs = [r \in ReqIds |-> IdleReq]
  /\ inp = PyNone
  /\ out = PyNone
  /\ pc = "idle"

NextConc ==
  \/ \E r \in ReqIds, u \in Users, method \in Methods, form \in TypeForms :
       Begin(r, u, method, form)
  \/ \E r \in ReqIds : Load(r)
  \/ \E r \in ReqIds : Create(r)
  \/ \E r \in ReqIds : Save(r)
  \/ \E r \in ReqIds : Render(r)

SpecConc == InitConc /\ [][NextConc]_vars

(***************************************************************************)
(* parse_json applied to bounded texts                                     *)
(***************************************************************************)
MaxTokLen == 5

TokAlphabet ==
  {<<"{">>, <<"}">>, <<"[">>, <<"]">>, <<":">>, <<",">>, <<"null">>,
   <<"string", S("k")>>, <<"number", 1>>}

ParseInputs ==
  {PyNone} \cup {JsonText(t) : t \in UNION {[1..n -> TokAlphabet] : n \in 0..MaxTokLen}}

InitParse ==
  /\ subscription_type = [u \in Users |-> Free]
  /\ portfolios = {}
  /\ before = [subscription_type |-> [u \in Users |-> Free], portfolios |-> {}]
  /\ req = [op |-> "none"]
  /\ resp = [status |-> "none", view |-> "none"]
  /\ reqs = <<>>
  /\ inp \in ParseInputs
  /\ out = PyNone
  /\ pc = "in"

ParseJson ==
  /\ pc = "in"
  /\ out' = parse_json(inp)
  /\ pc' = "out"
  /\ UNCHANGED <<subscription_type, portfolios, before, req, resp, reqs, inp>>

NextParse == ParseJson

SpecParse == InitParse /\ [][NextParse]_vars

(***************************************************************************)
(* The record built from bounded skills fields                             *)
(***************************************************************************)
MaxSkillsLen == 3

SkillAtoms == {"go", ",", " "}

SkillsForms ==
  {<<>>} \cup {[skills |-> s] : s \in UNION {[1..n -> SkillAtoms] : n \in 0..MaxSkillsLen}}

InitBuild ==
  /\ subscription_type = [u \in Users |-> Free]
  /\ portfolios = {}
  /\ before = [subscription_type |-> [u \in Users |-> Free], portfolios |-> {}]
  /\ req = [op |-> "none"]
  /\ resp = [status |-> "none", view |-> "none"]
  /\ reqs = <<>>
  /\ inp \in SkillsForms
  /\ out = PyNone
  /\ pc = "in"

Build(portfolio_type) ==
  /\ pc = "in"
  /\ out' = BuildData(inp, portfolio_type)
  /\ pc' = "out"
  /\ UNCHANGED <<subscription_type, portfolios, before, req, resp, reqs, inp>>

NextBuild == \E portfolio_type \in PlanTypes : Build(portfolio_type)

SpecBuild == InitBuild /\ [][NextBuild]_vars

(***************************************************************************)
(* Properties                                                              *)
(***************************************************************************)
Tiers == {S("Free"), S("Paid"), S("Premium")}

BaseKeys == {S("header"), S("about"), S("projects"), S("skills"), S("contact")}

ExpectedKeys(T) ==
  BaseKeys \cup (IF T \in {S("Paid"), S("Premium")} THEN {S("paid_pages")} ELSE {})
           \cup (IF T = S("Premium") THEN {S("premium_pages")} ELSE {})

\* the edit submission of the last request was saved
Saved == req.op = "edit_post" /\ resp.status = "ok"

StoredKeys(p) == Keys(parse_json(p.sections_data))

\* no section key of a tier above the row's portfolio_type
NoHigherTierKeys(p) ==
  /\ S("paid_pages") \in StoredKeys(p) => p.portfolio_type \in {S("Paid"), S("Premium")}
  /\ S("premium_pages") \in StoredKeys(p) => p.portfolio_type = S("Premium")

\* C1: the record an edit submission under tier T in {Free, Paid, Premium}
\* builds and stores has exactly the five base keys, plus paid_pages iff T is
\* Paid or Premium, plus premium_pages iff T is Premium.
C1_StoredKeySet ==
  (Saved /\ SubmittedType(req.form) \in Tiers) =>
     /\ PortfolioRows(portfolios, req.user) # {}
     /\ \A p \in PortfolioRows(portfolios, req.user) :
          StoredKeys(p) = ExpectedKeys(SubmittedType(req.form))

C1_Witness ==
  /\ Saved
  /\ SubmittedType(req.form) = S("Paid")
  /\ \E p \in PortfolioRows(portfolios, req.user) :
       S("paid_pages") \in StoredKeys(p) /\ S("premium_pages") \notin StoredKeys(p)

\* C2: select_plan with a plan_type outside {Free, Paid, Premium} is rejected
\* and leaves subscription_type and every Portfolio row as they were.
C2_InvalidPlanMutatesNothing ==
  (req.op = "select_plan" /\ req.plan_type \notin Tiers) =>
     (resp.status = "rejected" /\ Store = before)

C2_Witness ==
  /\ req.op = "select_plan"
  /\ req.plan_type = S("Enterprise")
  /\ resp.status = "rejected"
  /\ \E p \in PortfolioRows(portfolios, req.user) : p.portfolio_type = S("Premium")

\* C3: in every reachable state every Portfolio's portfolio_type is one of
\* Free, Paid, Premium.
C3_TypeInAllowList == \A p \in portfolios : p.portfolio_type \in Tiers

\* C4: each user has at most one Portfolio row, under every interleaving of
\* concurrent get-or-create requests of the same user.
C4_AtMostOnePortfolio ==
  \A u \in Users : Cardinality(PortfolioRows(portfolios, u)) <= 1

C4_Witness ==
  /\ \E r \in ReqIds : reqs[r].pc = "idle" /\ reqs[r].status = "IntegrityError"
  /\ \A u \in Users : Cardinality(PortfolioRows(portfolios, u)) = 1

\* C5: an edit submission whose persistence fails at any commit leaves the
\* tables exactly as they were before the submission.
C5_AllOrNothing ==
  (req.op = "edit_post" /\ resp.status = "error") => Store = before

\* C6: after a save the stored sections_data is the record built from that
\* submission's fields and tier alone; a save under Free leaves no paid_pages
\* and no premium_pages key, whatever was stored before.
C6_WholesaleOverwrite ==
  Saved =>
     /\ PortfolioRows(portfolios, req.user) # {}
     /\ \A p \in PortfolioRows(portfolios, req.user) :
          /\ parse_json(p.sections_data) = BuildData(req.form, SubmittedType(req.form))
          /\ SubmittedType(req.form) = S("Free") =>
               StoredKeys(p) \cap {S("paid_pages"), S("premium_pages")} = {}

C6_Witness ==
  /\ Saved
  /\ SubmittedType(req.form) = S("Free")
  /\ \E b \in PortfolioRows(before.portfolios, req.user) :
       {S("paid_pages"), S("premium_pages")} \subseteq StoredKeys(b)
  /\ \E p \in PortfolioRows(portfolios, req.user) : StoredKeys(p) = BaseKeys

\* a text that does not decode to a key-value record
NotSerializedRecord(data) ==
  LET r == json_loads(data) IN r[1] # "ok" \/ r[2][1] # "dict"

\* C7: parse_json returns the empty record for every input that is not a
\* serialized record: None, empty or malformed text, and well-formed text
\* of another shape (a list, a number, null).
C7_EmptyRecordOnNonRecord ==
  (pc = "out" /\ NotSerializedRecord(inp)) => out = PyDict(<<>>)

\* C8: public_portfolio picks the view from the stored portfolio_type alone:
\* the Free, Paid or Premium view for those types, the no-portfolio view when
\* there is no row or the type is any other value.
C8_ViewFromPortfolioType ==
  req.op = "public" =>
     LET rows == PortfolioRows(portfolios, req.user) IN
       /\ rows = {} => resp.view = "public_portfolio.html"
       /\ \A p \in rows :
            /\ p.portfolio_type = S("Free") => resp.view = "free_portfolio.html"
            /\ p.portfolio_type = S("Paid") => resp.view = "paid_portfolio.html"
            /\ p.portfolio_type = S("Premium") => resp.view = "premium_portfolio.html"
            /\ p.portfolio_type \notin Tiers => resp.view = "public_portfolio.html"

C8_Witness ==
  /\ req.op = "public"
  /\ subscription_type[req.user] = S("Premium")
  /\ \E p \in PortfolioRows(portfolios, req.user) : p.portfolio_type = S("Paid")
  /\ resp.view = "paid_portfolio.html"

RECURSIVE Strip(_)

\* s without its leading and trailing whitespace
Strip(s) ==
  IF s = <<>> THEN s
  ELSE IF Head(s) = " " THEN Strip(Tail(s))
  ELSE IF s[Len(s)] = " " THEN Strip(SubSeq(s, 1, Len(s) - 1))
  ELSE s

SplitTrimmed(form) ==
  IF "skills" \notin DOMAIN form \/ form.skills = <<>> THEN PyList(<<>>)
  ELSE LET parts == Split(form.skills)
       IN PyList([i \in DOMAIN parts |-> PyStr(Strip(parts[i]))])

\* C9: the skills section of a built record is the skills field split on
\* commas with every element trimmed, and empty when the field is absent or
\* the empty string.
C9_SkillsSplitTrimmed ==
  pc = "out" => Get(out, S("skills")) = SplitTrimmed(inp)

\* C10 as stated: in every reachable state no stored record holds a section
\* key of a tier above its portfolio_type.
C10_NoHigherTierKeysEver == \A p \in portfolios : NoHigherTierKeys(p)

\* C10 amended: right after a saved edit submission the stored record holds
\* no section key of a tier above the stored portfolio_type.
C10_NoHigherTierKeysAfterSave ==
  Saved => \A p \in PortfolioRows(portfolios, req.user) : NoHigherTierKeys(p)

C10_Witness ==
  /\ Saved
  /\ \E b \in PortfolioRows(before.portfolios, req.user) :
       b.portfolio_type = S("Premium") /\ S("premium_pages") \in StoredKeys(b)
  /\ \E p \in PortfolioRows(portfolios, req.user) :
       /\ p.portfolio_type = S("Paid")
       /\ S("paid_pages") \in StoredKeys(p)
       /\ S("premium_pages") \notin StoredKeys(p)

====
